---- MODULE Spec2Model ----
(***************************************************************************)
(* Consensus engines of the toy blockchain (src/src/c3_consensus): Proof   *)
(* of Work and the three Proof of Authority engines, each with its         *)
(* validate and seal operations, and a chain walk that validates every     *)
(* header against the digest of its predecessor.                           *)
(*                                                                         *)
(* An engine is constructed once (Init).  Its validate and seal take       *)
(* &self and keep no state, so a behaviour draws the arguments of one      *)
(* call, applies the operation, and may then validate the header a seal    *)
(* returned against the same parent digest.  A call that ends records its  *)
(* arguments and its outcome in `call`; an outcome is a value, or a panic  *)
(* (Rust aborts the call on an out-of-bounds index, a remainder by zero,   *)
(* or, in a debug build, an integer overflow).                             *)
(***************************************************************************)
EXTENDS Integers, Sequences, FiniteSets

VARIABLES
    engine,      \* the constructed engine: its kind and its parameters
    pc,          \* "idle", or the position inside PoW::seal ("loop", "return")
    ret_header,  \* PoW::seal's local `ret_header` while pc # "idle"
    call,        \* the last finished call: operation, arguments, outcome
    walk,        \* the chain walk: digest of the last accepted header, slots accepted
    chain        \* c2_blockchain: the headers built on top of genesis so far

vars == <<engine, pc, ret_header, call, walk, chain>>

----------------------------------------------------------------------------
(* Bounds of the model.  u64 is scaled down to 0..U64Max, so that the      *)
(* nonce search of PoW::seal can run through the whole type.               *)
U64Max == 3
MaxHeight == 2
MaxRoot == 1
MaxSlot == 3
MaxAuthorities == 2
MaxWalk == 3
MaxToggles == 3
ChainU64Max == 255
MaxChain == 4

U64 == 0..U64Max

(* ConsensusAuthority: an opaque token compared by equality.               *)
ConsensusAuthority == {"Alice", "Bob", "Charlie"}

(* Vec<ConsensusAuthority>, the empty vector included.                     *)
AuthorityLists == UNION {[1..n -> ConsensusAuthority] : n \in 0..MaxAuthorities}

(* Header<()>: every field but the consensus digest.                       *)
PartialHeaders ==
    [parent : U64, height : 0..MaxHeight, extrinsics_root : 0..MaxRoot,
     state_root : 0..MaxRoot]

(* The header built with the two roots taken from each other's field.      *)
Sealed_RootsSwapped(p, d) ==
    [parent |-> p.parent, height |-> p.height,
     extrinsics_root |-> p.state_root, state_root |-> p.extrinsics_root,
     consensus_digest |-> d]

(* Header<D> built from a partial header and a digest, field by field.     *)
Sealed(p, d) ==
    [parent |-> p.parent, height |-> p.height,
     extrinsics_root |-> p.extrinsics_root, state_root |-> p.state_root,
     consensus_digest |-> d]

(* The partial header a sealed header was built from.                      *)
Unsealed(h) ==
    [parent |-> h.parent, height |-> h.height,
     extrinsics_root |-> h.extrinsics_root, state_root |-> h.state_root]

(* SlotDigest { slot, signature }                                          *)
SlotDigests == [slot : 0..MaxSlot, signature : ConsensusAuthority]

(* crate::hash on a Header<u64>: a deterministic 64-bit digest of every    *)
(* field of the header, the consensus digest included.  The multipliers    *)
(* are primes above every modulus used, so each field moves the digest.    *)
hash(h) ==
    (17 * h.parent + 19 * h.height + 23 * h.extrinsics_root
       + 29 * h.state_root + 31 * h.consensus_digest + 1) % (U64Max + 1)

----------------------------------------------------------------------------
(* Outcomes of a call.                                                     *)
Ok(b) == [kind |-> "ok", value |-> b]
Panic == [kind |-> "panic", value |-> FALSE]
Some(h) == [kind |-> "Some", header |-> h]
None == [kind |-> "None"]
SealPanic == [kind |-> "panic"]

----------------------------------------------------------------------------
(* A call may start when the engine is idle and nothing was called yet.    *)
Fresh == pc = "idle" /\ call.op = "none" /\ walk.status = "none"

(* A seal has just returned Some(h).                                       *)
Resealed == pc = "idle" /\ call.op = "seal" /\ call.outcome.kind = "Some"

(* The arguments of a validate call over the digest type D: any parent     *)
(* digest and header when nothing was called yet (after_seal = FALSE), or  *)
(* the header a seal has just returned with the parent digest of that seal *)
(* (after_seal = TRUE).                                                    *)
ValidateArgs(D) ==
    IF Fresh
    THEN {[pd |-> pd, header |-> Sealed(p, d), after_seal |-> FALSE] :
             pd \in D, p \in PartialHeaders, d \in D}
    ELSE IF Resealed
    THEN {[pd |-> call.pd, header |-> call.outcome.header, after_seal |-> TRUE]}
    ELSE {}

(* The arguments of a seal call over the digest type D.                    *)
SealArgs(D) ==
    IF Fresh
    THEN {[pd |-> pd, partial |-> p] : pd \in D, p \in PartialHeaders}
    ELSE {}

ValidateCall(pd, header, after_seal, outcome) ==
    [op |-> "validate", pd |-> pd, header |-> header, after_seal |-> after_seal,
     outcome |-> outcome]

SealCall(pd, partial_header, outcome) ==
    [op |-> "seal", pd |-> pd, partial |-> partial_header, outcome |-> outcome]

(* ret_header outside PoW::seal: the local does not exist.                 *)
NoHeader == [kind |-> "None"]

----------------------------------------------------------------------------
(* Proof of Work (p1_pow.rs)                                               *)

(* PoW::validate: rejects when header.parent >= threshold, accepts         *)
(* otherwise; the parent digest is not read.                               *)
PoW_validate(threshold, pd, header) ==
    IF header.parent >= threshold THEN Ok(FALSE) ELSE Ok(TRUE)

(* PoW { threshold }, for every threshold.                                 *)
PoWEngines == {[kind |-> "PoW", threshold |-> t] : t \in U64}

(* PoW::validate as a call.                                                *)
PoWValidate ==
    /\ engine.kind = "PoW"
    /\ \E a \in ValidateArgs(U64) :
          call' = ValidateCall(a.pd, a.header, a.after_seal,
                               PoW_validate(engine.threshold, a.pd, a.header))
    /\ UNCHANGED <<engine, pc, ret_header, walk, chain>>

(* PoW::seal, entry: ret_header is the partial header with digest 0.       *)
PoWSealBegin ==
    /\ engine.kind = "PoW"
    /\ \E a \in SealArgs(U64) :
          /\ ret_header' = Sealed(a.partial, 0)
          /\ call' = [op |-> "sealing", pd |-> a.pd, partial |-> a.partial]
    /\ pc' = "loop"
    /\ UNCHANGED <<engine, walk, chain>>

(* The header after `ret_header.consensus_digest += 1` : at u64::MAX the   *)
(* increment overflows, and a release build wraps to 0.                    *)
NextNonce(h) ==
    [h EXCEPT !.consensus_digest = (@ + 1) % (U64Max + 1)]

(* The test that ends the loop: hash_value > self.threshold                *)
PoW_seal_break(threshold, candidate) == hash(candidate) > threshold

(* One iteration of the loop: increment the nonce, hash, break when the    *)
(* test says so.  On overflow a debug build panics instead of wrapping.    *)
PoWSealIter ==
    /\ pc = "loop"
    /\ \/ /\ ret_header' = NextNonce(ret_header)
          /\ pc' = IF PoW_seal_break(engine.threshold, ret_header')
                   THEN "return" ELSE "loop"
          /\ UNCHANGED call
       \/ /\ ret_header.consensus_digest = U64Max
          /\ pc' = "idle"
          /\ ret_header' = NoHeader
          /\ call' = SealCall(call.pd, call.partial, SealPanic)
    /\ UNCHANGED <<engine, walk, chain>>

(* return Some(ret_header)                                                 *)
PoWSealReturn ==
    /\ pc = "return"
    /\ pc' = "idle"
    /\ ret_header' = NoHeader
    /\ call' = SealCall(call.pd, call.partial, Some(ret_header))
    /\ UNCHANGED <<engine, walk, chain>>

(* PoW::seal as a whole, for the engines that call it: the outcomes the    *)
(* loop can return.  The first nonce from 1 that passes the break test is  *)
(* returned; when none does, the increment overflows: a debug build        *)
(* panics, a release build wraps to nonce 0, returns it when it passes the *)
(* test and never returns otherwise.                                       *)
PoW_seal(threshold, pd, partial_header) ==
    LET hits == {n \in 1..U64Max :
                    PoW_seal_break(threshold, Sealed(partial_header, n))}
    IN  IF hits # {}
        THEN {Some(Sealed(partial_header,
                          CHOOSE n \in hits : \A m \in hits : n <= m))}
        ELSE {SealPanic}
             \cup (IF PoW_seal_break(threshold, Sealed(partial_header, 0))
                   THEN {Some(Sealed(partial_header, 0))} ELSE {})

----------------------------------------------------------------------------
(* Proof of Authority (p3_poa.rs)                                          *)

(* Vec::get(i) with a 0-based index: None outside the vector.              *)
VecGet(v, i) ==
    IF i < Len(v) THEN [kind |-> "Some", value |-> v[i + 1]] ELSE [kind |-> "None"]

(* SimplePoa::validate were it to compare with the first authority only,   *)
(* as SimplePoa::seal signs.                                               *)
SimplePoa_validate_FirstOnly(authorities, pd, header) ==
    Ok(Len(authorities) > 0 /\ header.consensus_digest = authorities[1])

(* SimplePoa::validate: true when some authority equals the digest.        *)
SimplePoa_validate(authorities, pd, header) ==
    Ok(\E i \in 1..Len(authorities) : header.consensus_digest = authorities[i])

(* SimplePoa::seal: signs with authorities.first(), None when empty.       *)
SimplePoa_seal(authorities, pd, partial_header) ==
    IF Len(authorities) = 0 THEN None
    ELSE Some(Sealed(partial_header, authorities[1]))

(* PoaRoundRobinByHeight::validate were it to index by the height itself,  *)
(* without the remainder.                                                  *)
PoaRoundRobinByHeight_validate_NoMod(authorities, pd, header) ==
    LET authority == VecGet(authorities, header.height)
    IN  IF authority.kind = "Some"
        THEN Ok(header.consensus_digest = authority.value)
        ELSE Ok(FALSE)

(* PoaRoundRobinByHeight::validate: height % authorities.len() panics on   *)
(* an empty vector; otherwise the digest is compared with the authority    *)
(* at that index.                                                          *)
PoaRoundRobinByHeight_validate(authorities, pd, header) ==
    IF Len(authorities) = 0 THEN Panic
    ELSE LET authority == VecGet(authorities, header.height % Len(authorities))
         IN  IF authority.kind = "Some"
             THEN Ok(header.consensus_digest = authority.value)
             ELSE Ok(FALSE)

(* PoaRoundRobinByHeight::seal: the same index, `?` on the lookup.         *)
PoaRoundRobinByHeight_seal(authorities, pd, partial_header) ==
    IF Len(authorities) = 0 THEN SealPanic
    ELSE LET authority ==
                 VecGet(authorities, partial_header.height % Len(authorities))
         IN  IF authority.kind = "Some"
             THEN Some(Sealed(partial_header, authority.value))
             ELSE None

(* PoaRoundRobinBySlot::validate: self.authorities[slot] is evaluated      *)
(* first and panics when slot is outside the vector; then the slot is      *)
(* compared with the parent's.                                             *)
PoaRoundRobinBySlot_validate(authorities, pd, header) ==
    IF header.consensus_digest.slot >= Len(authorities) THEN Panic
    ELSE Ok(/\ header.consensus_digest.signature
                  = authorities[header.consensus_digest.slot + 1]
            /\ header.consensus_digest.slot > pd.slot)

(* PoaRoundRobinBySlot::seal: the authority at index parent_digest.slot    *)
(* (None outside the vector) signs slot parent_digest.slot + 1.            *)
PoaRoundRobinBySlot_seal(authorities, pd, partial_header) ==
    LET authority == VecGet(authorities, pd.slot)
    IN  IF authority.kind = "Some"
        THEN Some(Sealed(partial_header,
                         [slot |-> pd.slot + 1, signature |-> authority.value]))
        ELSE None

PoaKinds == {"SimplePoa", "PoaRoundRobinByHeight", "PoaRoundRobinBySlot"}

PoaEngines == {[kind |-> k, authorities |-> a] : k \in PoaKinds, a \in AuthorityLists}

(* The digest type of an engine.                                           *)
Digests(kind) ==
    IF kind = "PoW" THEN U64
    ELSE IF kind = "PoaRoundRobinBySlot" THEN SlotDigests
    ELSE ConsensusAuthority

SimplePoaValidate ==
    /\ engine.kind = "SimplePoa"
    /\ \E a \in ValidateArgs(ConsensusAuthority) :
          call' = ValidateCall(a.pd, a.header, a.after_seal,
                     SimplePoa_validate(engine.authorities, a.pd, a.header))
    /\ UNCHANGED <<engine, pc, ret_header, walk, chain>>

SimplePoaSeal ==
    /\ engine.kind = "SimplePoa"
    /\ \E a \in SealArgs(ConsensusAuthority) :
          call' = SealCall(a.pd, a.partial,
                     SimplePoa_seal(engine.authorities, a.pd, a.partial))
    /\ UNCHANGED <<engine, pc, ret_header, walk, chain>>

ByHeightValidate ==
    /\ engine.kind = "PoaRoundRobinByHeight"
    /\ \E a \in ValidateArgs(ConsensusAuthority) :
          call' = ValidateCall(a.pd, a.header, a.after_seal,
                     PoaRoundRobinByHeight_validate(engine.authorities, a.pd, a.header))
    /\ UNCHANGED <<engine, pc, ret_header, walk, chain>>

ByHeightSeal ==
    /\ engine.kind = "PoaRoundRobinByHeight"
    /\ \E a \in SealArgs(ConsensusAuthority) :
          call' = SealCall(a.pd, a.partial,
                     PoaRoundRobinByHeight_seal(engine.authorities, a.pd, a.partial))
    /\ UNCHANGED <<engine, pc, ret_header, walk, chain>>

BySlotValidate ==
    /\ engine.kind = "PoaRoundRobinBySlot"
    /\ \E a \in ValidateArgs(SlotDigests) :
          call' = ValidateCall(a.pd, a.header, a.after_seal,
                     PoaRoundRobinBySlot_validate(engine.authorities, a.pd, a.header))
    /\ UNCHANGED <<engine, pc, ret_header, walk, chain>>

BySlotSeal ==
    /\ engine.kind = "PoaRoundRobinBySlot"
    /\ \E a \in SealArgs(SlotDigests) :
          call' = SealCall(a.pd, a.partial,
                     PoaRoundRobinBySlot_seal(engine.authorities, a.pd, a.partial))
    /\ UNCHANGED <<engine, pc, ret_header, walk, chain>>

(* The headers of an engine's digest type.                                 *)
HeaderArgs(kind) ==
    {Sealed(p, d) : p \in PartialHeaders, d \in Digests(kind)}

----------------------------------------------------------------------------
(* The chain walk of the verification driver, for PoaRoundRobinBySlot:     *)
(* each header is validated against the digest of the header before it,    *)
(* and the walk stops at the first header that is not accepted.            *)

(* No header of the walk has been examined yet.                            *)
NotExamined == [kind |-> "none", value |-> FALSE]

WalkBegin ==
    /\ engine.kind = "PoaRoundRobinBySlot"
    /\ Fresh
    /\ \E pd \in SlotDigests :
          walk' = [status |-> "walking", prev |-> pd, slots |-> <<>>,
                   examined |-> pd, against |-> pd, outcome |-> NotExamined]
    /\ UNCHANGED <<engine, pc, ret_header, call, chain>>

WalkStep ==
    /\ engine.kind = "PoaRoundRobinBySlot"
    /\ walk.status = "walking"
    /\ Len(walk.slots) < MaxWalk
    /\ \E header \in HeaderArgs("PoaRoundRobinBySlot") :
       LET outcome ==
             PoaRoundRobinBySlot_validate(engine.authorities, walk.prev, header)
           accepted == outcome.kind = "ok" /\ outcome.value
       IN  walk' = [status |-> IF accepted THEN "walking"
                               ELSE IF outcome.kind = "panic" THEN "panicked"
                               ELSE "rejected",
                    prev |-> IF accepted THEN header.consensus_digest ELSE walk.prev,
                    slots |-> IF accepted
                              THEN Append(walk.slots, header.consensus_digest.slot)
                              ELSE walk.slots,
                    examined |-> header.consensus_digest,
                    against |-> walk.prev,
                    outcome |-> outcome]
    /\ UNCHANGED <<engine, pc, ret_header, call, chain>>

----------------------------------------------------------------------------
(* Dispatch on the inner engine of a higher-order engine: the validate and *)
(* seal of the engine type it is instantiated with.  seal gives the set of *)
(* outcomes the call can return.                                           *)
BaseEngines == PoWEngines \cup PoaEngines

Inner_validate(inner, pd, header) ==
    CASE inner.kind = "PoW" -> PoW_validate(inner.threshold, pd, header)
      [] inner.kind = "SimplePoa" ->
            SimplePoa_validate(inner.authorities, pd, header)
      [] inner.kind = "PoaRoundRobinByHeight" ->
            PoaRoundRobinByHeight_validate(inner.authorities, pd, header)
      [] inner.kind = "PoaRoundRobinBySlot" ->
            PoaRoundRobinBySlot_validate(inner.authorities, pd, header)

Inner_seal(inner, pd, partial_header) ==
    CASE inner.kind = "PoW" -> PoW_seal(inner.threshold, pd, partial_header)
      [] inner.kind = "SimplePoa" ->
            {SimplePoa_seal(inner.authorities, pd, partial_header)}
      [] inner.kind = "PoaRoundRobinByHeight" ->
            {PoaRoundRobinByHeight_seal(inner.authorities, pd, partial_header)}
      [] inner.kind = "PoaRoundRobinBySlot" ->
            {PoaRoundRobinBySlot_seal(inner.authorities, pd, partial_header)}

----------------------------------------------------------------------------
(* EvenOnly<Inner> (p4_even_only.rs).  The engine holds no inner value:    *)
(* every call instantiates the inner engine anew with Inner::new(), which  *)
(* gives the same engine each time (engine.inner).                         *)

(* EvenOnly::validate were it to leave out the parity of the state root.   *)
EvenOnly_validate_NoParity(inner, pd, header) ==
    Inner_validate(inner, pd, header)

(* EvenOnly::validate: the inner verdict first (a panic of the inner       *)
(* engine aborts the call), then state_root % 2 == 0, both required.       *)
EvenOnly_validate(inner, pd, header) ==
    LET is_inner_valid == Inner_validate(inner, pd, header)
        is_state_root_even == header.state_root % 2 = 0
    IN  IF is_inner_valid.kind = "panic" THEN Panic
        ELSE Ok(is_inner_valid.value /\ is_state_root_even)

(* EvenOnly::seal were it to return the inner header unchecked.            *)
EvenOnly_seal_NoParity(inner, pd, partial_header) ==
    Inner_seal(inner, pd, partial_header)

(* EvenOnly::seal: the inner seal with `?` (None stays None), then the     *)
(* sealed header when its state root is even and None when it is odd.      *)
EvenOnly_seal(inner, pd, partial_header) ==
    {IF sealed.kind = "Some"
     THEN IF sealed.header.state_root % 2 = 0 THEN sealed ELSE None
     ELSE sealed : sealed \in Inner_seal(inner, pd, partial_header)}

EvenOnlyEngines == {[kind |-> "EvenOnly", inner |-> e] : e \in BaseEngines}

EvenOnlyValidate ==
    /\ engine.kind = "EvenOnly"
    /\ \E a \in ValidateArgs(Digests(engine.inner.kind)) :
          call' = ValidateCall(a.pd, a.header, a.after_seal,
                     EvenOnly_validate(engine.inner, a.pd, a.header))
    /\ UNCHANGED <<engine, pc, ret_header, walk, chain>>

EvenOnlySeal ==
    /\ engine.kind = "EvenOnly"
    /\ \E a \in SealArgs(Digests(engine.inner.kind)) :
          \E outcome \in EvenOnly_seal(engine.inner, a.pd, a.partial) :
             call' = SealCall(a.pd, a.partial, outcome)
    /\ UNCHANGED <<engine, pc, ret_header, walk, chain>>

(* The chain walk of the verification driver under EvenOnly: each header   *)
(* is validated against the digest of the header before it, and the walk   *)
(* stops at the first header that is not accepted.  The walk keeps the     *)
(* state roots it accepted, and of the header examined last its state      *)
(* root and the verdict of the inner engine on it.                         *)
EvenOnlyWalkBegin ==
    /\ engine.kind = "EvenOnly"
    /\ Fresh
    /\ \E pd \in Digests(engine.inner.kind) :
          walk' = [status |-> "walking", prev |-> pd, roots |-> <<>>,
                   examined_root |-> 0, inner |-> NotExamined,
                   outcome |-> NotExamined]
    /\ UNCHANGED <<engine, pc, ret_header, call, chain>>

EvenOnlyWalkStep ==
    /\ engine.kind = "EvenOnly"
    /\ walk.status = "walking"
    /\ Len(walk.roots) < MaxWalk
    /\ \E header \in HeaderArgs(engine.inner.kind) :
       LET outcome == EvenOnly_validate(engine.inner, walk.prev, header)
           accepted == outcome.kind = "ok" /\ outcome.value
       IN  walk' = [status |-> IF accepted THEN "walking"
                               ELSE IF outcome.kind = "panic" THEN "panicked"
                               ELSE "rejected",
                    prev |-> IF accepted THEN header.consensus_digest ELSE walk.prev,
                    roots |-> IF accepted
                              THEN Append(walk.roots, header.state_root)
                              ELSE walk.roots,
                    examined_root |-> header.state_root,
                    inner |-> Inner_validate(engine.inner, walk.prev, header),
                    outcome |-> outcome]
    /\ UNCHANGED <<engine, pc, ret_header, call, chain>>

----------------------------------------------------------------------------
(* Forked<D, Before, After> (p6_forking.rs), instantiated with two engines *)
(* of one digest type, so that parent_digest.into() is the identity.  The  *)
(* struct holds fork_height only; engine.before and engine.after are the   *)
(* engines of the types Before and After.                                  *)

(* Forked::validate were the height test off by one (<=).                  *)
Forked_validate_OffByOne(fork_height, before, after, pd, header) ==
    IF header.height <= fork_height
    THEN Inner_validate(before, pd, header)
    ELSE Inner_validate(after, pd, header)

(* Forked::validate: header.height < self.fork_height chooses Before,      *)
(* otherwise After.                                                        *)
Forked_validate(fork_height, before, after, pd, header) ==
    IF header.height < fork_height
    THEN Inner_validate(before, pd, header)
    ELSE Inner_validate(after, pd, header)

(* Forked::seal: the same test on the partial header's height.             *)
Forked_seal(fork_height, before, after, pd, partial_header) ==
    IF partial_header.height < fork_height
    THEN Inner_seal(before, pd, partial_header)
    ELSE Inner_seal(after, pd, partial_header)

(* The engines of the two arms: two PoW engines, or two of the PoA engines *)
(* that sign with a ConsensusAuthority, each with one authority.           *)
ForkArms ==
    (PoWEngines \X PoWEngines)
    \cup {<<b, a>> \in PoaEngines \X PoaEngines :
             /\ b.kind # "PoaRoundRobinBySlot" /\ a.kind # "PoaRoundRobinBySlot"
             /\ Len(b.authorities) = 1 /\ Len(a.authorities) = 1}

ForkHeights == 0..(MaxHeight + 1)

ForkedEngines ==
    {[kind |-> "Forked", fork_height |-> f, before |-> arms[1], after |-> arms[2]] :
        f \in ForkHeights, arms \in ForkArms}

ForkedValidate ==
    /\ engine.kind = "Forked"
    /\ \E a \in ValidateArgs(Digests(engine.before.kind)) :
          call' = ValidateCall(a.pd, a.header, a.after_seal,
                     Forked_validate(engine.fork_height, engine.before,
                                     engine.after, a.pd, a.header))
    /\ UNCHANGED <<engine, pc, ret_header, walk, chain>>

ForkedSeal ==
    /\ engine.kind = "Forked"
    /\ \E a \in SealArgs(Digests(engine.before.kind)) :
          \E outcome \in Forked_seal(engine.fork_height, engine.before,
                                     engine.after, a.pd, a.partial) :
             call' = SealCall(a.pd, a.partial, outcome)
    /\ UNCHANGED <<engine, pc, ret_header, walk, chain>>

(* A Forked engine called more than once.  validate and seal take &self    *)
(* and Forked has no cell it could write through, so a call leaves the     *)
(* engine as it was.                                                       *)

(* What a call would leave were Forked to keep a mode that latches once a  *)
(* header at or above fork_height was seen.                                *)
Forked_after_call_Latched(e, height) ==
    IF height >= e.fork_height THEN [e EXCEPT !.fork_height = 0] ELSE e

(* The engine after a validate or seal call on a header of that height.    *)
Forked_after_call(e, height) == e

(* The engines called repeatedly: PoW arms of the two extreme thresholds,  *)
(* one on each side of the fork.                                           *)
RepeatedlyCalledEngines ==
    {e \in ForkedEngines :
        /\ e.before.kind = "PoW"
        /\ {e.before.threshold, e.after.threshold} = {0, U64Max}}

(* An earlier validate or seal call on a header of some height; its result *)
(* is dropped.  walk keeps the engine as constructed and the heights of    *)
(* the earlier calls, in whatever order and number they were made.         *)
ForkedEarlierCall ==
    /\ engine.kind = "Forked"
    /\ pc = "idle"
    /\ call.op = "none"
    /\ walk.status \in {"none", "history"}
    /\ \E height \in 0..MaxHeight :
          /\ walk' = [status |-> "history",
                      engine0 |-> IF walk.status = "none" THEN engine
                                  ELSE walk.engine0,
                      heights |-> IF walk.status = "none" THEN {height}
                                  ELSE walk.heights \cup {height}]
          /\ engine' = Forked_after_call(engine, height)
    /\ UNCHANGED <<pc, ret_header, call, chain>>

(* A validate call after the earlier ones.                                 *)
ForkedLaterValidate ==
    /\ engine.kind = "Forked"
    /\ pc = "idle"
    /\ call.op = "none"
    /\ walk.status = "history"
    /\ \E pd \in U64, p \in PartialHeaders, d \in U64 :
          /\ call' = ValidateCall(pd, Sealed(p, d), FALSE,
                         Forked_validate(engine.fork_height, engine.before,
                                         engine.after, pd, Sealed(p, d)))
          /\ engine' = Forked_after_call(engine, p.height)
    /\ UNCHANGED <<pc, ret_header, walk, chain>>

(* A seal call after the earlier ones.                                     *)
ForkedLaterSeal ==
    /\ engine.kind = "Forked"
    /\ pc = "idle"
    /\ call.op = "none"
    /\ walk.status = "history"
    /\ \E pd \in U64, p \in PartialHeaders :
          /\ \E outcome \in Forked_seal(engine.fork_height, engine.before,
                                        engine.after, pd, p) :
                call' = SealCall(pd, p, outcome)
          /\ engine' = Forked_after_call(engine, p.height)
    /\ UNCHANGED <<pc, ret_header, walk, chain>>

----------------------------------------------------------------------------
(* even_after_given_height (p6_forking.rs): EvenAfterGivenHeight { inner,  *)
(* fork_height }, inner being Original::default().                         *)

(* EvenAfterGivenHeight::validate were the parity rule to start one block  *)
(* late (>).                                                               *)
EvenAfterGivenHeight_validate_Late(fork_height, inner, pd, header) ==
    IF header.height > fork_height
    THEN IF header.state_root % 2 = 0
         THEN Inner_validate(inner, pd, header)
         ELSE Ok(FALSE)
    ELSE Inner_validate(inner, pd, header)

(* EvenAfterGivenHeight::validate: from fork_height on, state_root % 2 ==  *)
(* 0 && inner.validate (an odd state root is rejected before the inner     *)
(* engine is called); below it, inner.validate alone.                      *)
EvenAfterGivenHeight_validate(fork_height, inner, pd, header) ==
    IF header.height >= fork_height
    THEN IF header.state_root % 2 = 0
         THEN Inner_validate(inner, pd, header)
         ELSE Ok(FALSE)
    ELSE Inner_validate(inner, pd, header)

(* EvenAfterGivenHeight::seal: the inner seal, whatever the height.        *)
EvenAfterGivenHeight_seal(fork_height, inner, pd, partial_header) ==
    Inner_seal(inner, pd, partial_header)

EvenAfterEngines ==
    {[kind |-> "EvenAfterGivenHeight", fork_height |-> f, inner |-> e] :
        f \in ForkHeights,
        e \in {b \in BaseEngines : b.kind # "PoaRoundRobinBySlot"}}

EvenAfterValidate ==
    /\ engine.kind = "EvenAfterGivenHeight"
    /\ \E a \in ValidateArgs(Digests(engine.inner.kind)) :
          call' = ValidateCall(a.pd, a.header, a.after_seal,
                     EvenAfterGivenHeight_validate(engine.fork_height,
                                                   engine.inner, a.pd, a.header))
    /\ UNCHANGED <<engine, pc, ret_header, walk, chain>>

EvenAfterSeal ==
    /\ engine.kind = "EvenAfterGivenHeight"
    /\ \E a \in SealArgs(Digests(engine.inner.kind)) :
          \E outcome \in EvenAfterGivenHeight_seal(engine.fork_height,
                                                   engine.inner, a.pd, a.partial) :
             call' = SealCall(a.pd, a.partial, outcome)
    /\ UNCHANGED <<engine, pc, ret_header, walk, chain>>

----------------------------------------------------------------------------
(* change_authorities (p6_forking.rs): PoAChangeAuthorities { fork_height, *)
(* initial_authorities, final_authorities } with Digest =                  *)
(* ConsensusAuthority.                                                     *)

(* PoAChangeAuthorities::validate: `true`, whatever the arguments.         *)
PoAChangeAuthorities_validate(fork_height, initial_authorities, final_authorities, pd, header) ==
    Ok(TRUE)

(* PoAChangeAuthorities::seal: `None`, whatever the arguments.             *)
PoAChangeAuthorities_seal(fork_height, initial_authorities, final_authorities, pd, partial_header) ==
    None

(* The authority lists given to change_authorities: empty or of one        *)
(* authority.                                                              *)
ChangeAuthorityLists == {l \in AuthorityLists : Len(l) <= 1}

ChangeAuthoritiesEngines ==
    {[kind |-> "PoAChangeAuthorities", fork_height |-> f,
      initial_authorities |-> i, final_authorities |-> l] :
        f \in ForkHeights, i \in ChangeAuthorityLists, l \in ChangeAuthorityLists}

ChangeAuthoritiesValidate ==
    /\ engine.kind = "PoAChangeAuthorities"
    /\ \E a \in ValidateArgs(ConsensusAuthority) :
          call' = ValidateCall(a.pd, a.header, a.after_seal,
                     PoAChangeAuthorities_validate(
                        engine.fork_height, engine.initial_authorities,
                        engine.final_authorities, a.pd, a.header))
    /\ UNCHANGED <<engine, pc, ret_header, walk, chain>>

ChangeAuthoritiesSeal ==
    /\ engine.kind = "PoAChangeAuthorities"
    /\ \E a \in SealArgs(ConsensusAuthority) :
          call' = SealCall(a.pd, a.partial,
                     PoAChangeAuthorities_seal(
                        engine.fork_height, engine.initial_authorities,
                        engine.final_authorities, a.pd, a.partial))
    /\ UNCHANGED <<engine, pc, ret_header, walk, chain>>

----------------------------------------------------------------------------
(* change_difficulty (p6_forking.rs): ChangingDifficultyPoW { inner: (),   *)
(* fork_height, initial_difficulty, final_difficulty } with the digest     *)
(* type of the inner engine, which is the unit engine `()`.                *)

(* The digest `()`: it adds nothing to the hash of a header.               *)
UnitDigest == 0

(* The unit engine: it accepts every header and seals with the digest ().  *)
Unit_validate(pd, header) == Ok(TRUE)

Unit_seal(pd, partial_header) == Some(Sealed(partial_header, UnitDigest))

(* Header { difficulty: d, ..h }                                           *)
WithDifficulty(h, d) ==
    [f \in DOMAIN h \cup {"difficulty"} |-> IF f = "difficulty" THEN d ELSE h[f]]

(* ChangingDifficultyPoW::validate: the inner verdict, unchanged.          *)
ChangingDifficultyPoW_validate(fork_height, initial_difficulty, final_difficulty, pd, header) ==
    Unit_validate(pd, header)

(* ChangingDifficultyPoW::seal: the inner seal with `?`; from fork_height  *)
(* on the sealed header is rebuilt with a difficulty, final_difficulty at  *)
(* fork_height and sealed_header.difficulty above it.  The inner engine    *)
(* sets no difficulty, so the value read there is any u64.                 *)
ChangingDifficultyPoW_seal(fork_height, initial_difficulty, final_difficulty, pd, partial_header) ==
    LET sealed == Unit_seal(pd, partial_header)
    IN  IF sealed.kind # "Some" THEN {sealed}
        ELSE IF sealed.header.height >= fork_height
        THEN LET difficulties == IF sealed.header.height = fork_height
                                 THEN {final_difficulty} ELSE U64
             IN  {Some(WithDifficulty(sealed.header, new_difficulty)) :
                     new_difficulty \in difficulties}
        ELSE {sealed}

ChangeDifficultyEngines ==
    {[kind |-> "ChangingDifficultyPoW", fork_height |-> f,
      initial_difficulty |-> i, final_difficulty |-> l] :
        f \in ForkHeights, i \in U64, l \in U64}

ChangeDifficultyValidate ==
    /\ engine.kind = "ChangingDifficultyPoW"
    /\ \E a \in ValidateArgs({UnitDigest}) :
          call' = ValidateCall(a.pd, a.header, a.after_seal,
                     ChangingDifficultyPoW_validate(
                        engine.fork_height, engine.initial_difficulty,
                        engine.final_difficulty, a.pd, a.header))
    /\ UNCHANGED <<engine, pc, ret_header, walk, chain>>

ChangeDifficultySeal ==
    /\ engine.kind = "ChangingDifficultyPoW"
    /\ \E a \in SealArgs({UnitDigest}) :
          \E outcome \in ChangingDifficultyPoW_seal(
                             engine.fork_height, engine.initial_difficulty,
                             engine.final_difficulty, a.pd, a.partial) :
             call' = SealCall(a.pd, a.partial, outcome)
    /\ UNCHANGED <<engine, pc, ret_header, walk, chain>>

----------------------------------------------------------------------------
(* The cross-digest fork (p6_forking.rs).                                  *)

(* enum PowOrPoaDigest { Pow(u64), Poa(ConsensusAuthority) } with its two  *)
(* From impls.                                                             *)
FromPow(d) == [tag |-> "Pow", value |-> d]
FromPoa(d) == [tag |-> "Poa", value |-> d]
PowOrPoaDigest ==
    {FromPow(d) : d \in U64} \cup {FromPoa(d) : d \in ConsensusAuthority}

(* pow_to_poa(fork_height, difficulty, authorities): the body is           *)
(* todo!("Exercise 6"), which panics; no engine is returned.               *)
pow_to_poa(fork_height, difficulty, authorities) == [kind |-> "panic"]

(* No engine: the constructor has not returned one.                        *)
NoEngine == [kind |-> "none"]

(* A call of pow_to_poa.  The engine it returns, if any, becomes `engine`. *)
PowToPoa ==
    /\ engine = NoEngine
    /\ Fresh
    /\ \E f \in ForkHeights, difficulty \in U64, authorities \in AuthorityLists :
          LET outcome == pow_to_poa(f, difficulty, authorities)
          IN  /\ call' = [op |-> "pow_to_poa", fork_height |-> f,
                          difficulty |-> difficulty, authorities |-> authorities,
                          outcome |-> outcome]
              /\ engine' = IF outcome.kind = "panic" THEN engine ELSE outcome
    /\ UNCHANGED <<pc, ret_header, walk, chain>>

----------------------------------------------------------------------------
(* AlternatingPowPoa (p5_interleave.rs): current_engine is one boxed       *)
(* engine with Digest = u64.  toggle_engine replaces it by a new           *)
(* PoaConsensus when its human_name() is "Proof of Work" and by a new      *)
(* PowConsensus otherwise.                                                 *)

(* PowConsensus and PoaConsensus are unit structs: each is one fixed       *)
(* engine.  PowConsensus is Proof of Work with some fixed threshold (the   *)
(* engine record carries it as pow_consensus); PoaConsensus accepts the    *)
(* digests of a fixed authority set and signs with the first of them.      *)
PoaConsensusAuthorities == <<1>>

PoaConsensus == [kind |-> "PoaConsensus", name |-> "Proof of Authority"]

PowConsensus(threshold) ==
    [kind |-> "PoW", threshold |-> threshold, name |-> "Proof of Work"]

(* human_name() of a boxed engine.                                         *)
human_name(e) == e.name

(* Dispatch on the boxed engine (dyn Consensus<Digest = u64>).             *)
Current_validate(e, pd, header) ==
    IF e.kind = "PoW" THEN PoW_validate(e.threshold, pd, header)
    ELSE Ok(\E i \in 1..Len(PoaConsensusAuthorities) :
               header.consensus_digest = PoaConsensusAuthorities[i])

Current_seal(e, pd, partial_header) ==
    IF e.kind = "PoW" THEN PoW_seal(e.threshold, pd, partial_header)
    ELSE {Some(Sealed(partial_header, PoaConsensusAuthorities[1]))}

(* AlternatingPowPoa::validate and ::seal delegate to current_engine.      *)
AlternatingPowPoa_validate(current_engine, pd, header) ==
    Current_validate(current_engine, pd, header)

AlternatingPowPoa_seal(current_engine, pd, partial_header) ==
    Current_seal(current_engine, pd, partial_header)

(* AlternatingPowPoa::toggle_engine: the next current_engine.              *)
toggle_engine(current_engine, pow_consensus) ==
    IF human_name(current_engine) = "Proof of Work"
    THEN PoaConsensus
    ELSE pow_consensus

(* The engines AlternatingPowPoa::new can be given: a PoW engine of any    *)
(* threshold, whose human_name() is "Proof of Work" or the trait's         *)
(* default.  `initial` and `toggles` record the engine it was built with   *)
(* and the number of toggles since.                                        *)
AlternatingEngines ==
    {[kind |-> "AlternatingPowPoa",
      current_engine |-> [kind |-> "PoW", threshold |-> t, name |-> n],
      initial |-> [kind |-> "PoW", threshold |-> t, name |-> n],
      pow_consensus |-> PowConsensus(c),
      toggles |-> 0] :
        t \in U64, c \in U64, n \in {"Proof of Work", "Unnamed Consensus Engine"}}

AlternatingToggle ==
    /\ engine.kind = "AlternatingPowPoa"
    /\ Fresh
    /\ engine.toggles < MaxToggles
    /\ engine' = [engine EXCEPT
                    !.current_engine = toggle_engine(@, engine.pow_consensus),
                    !.toggles = @ + 1]
    /\ UNCHANGED <<pc, ret_header, call, walk, chain>>

AlternatingValidate ==
    /\ engine.kind = "AlternatingPowPoa"
    /\ \E a \in ValidateArgs(U64) :
          call' = ValidateCall(a.pd, a.header, a.after_seal,
                     AlternatingPowPoa_validate(engine.current_engine, a.pd, a.header))
    /\ UNCHANGED <<engine, pc, ret_header, walk, chain>>

AlternatingSeal ==
    /\ engine.kind = "AlternatingPowPoa"
    /\ \E a \in SealArgs(U64) :
          \E outcome \in AlternatingPowPoa_seal(engine.current_engine,
                                                a.pd, a.partial) :
             call' = SealCall(a.pd, a.partial, outcome)
    /\ UNCHANGED <<engine, pc, ret_header, walk, chain>>

----------------------------------------------------------------------------
(* The header chain of c2_blockchain/p3_consensus.rs: headers with a       *)
(* consensus digest, built by child() on top of genesis, and the three     *)
(* verifiers.  Here u64 is scaled to 0..ChainU64Max.  A build with         *)
(* overflow checks (debug) panics where `+` overflows, one without         *)
(* (release) wraps; engine.overflow_checks says which build runs.          *)

THRESHOLD == ChainU64Max \div 1

FORK_HEIGHT == 2

(* The extrinsics given to child(), and the values and fields a caller     *)
(* overwrites in a header it has built (`b1.parent = 10`).                 *)
Extrinsics == {0, 1, 2, ChainU64Max}
TamperValues == {0, 1, 10}
HeaderFields == {"parent", "height", "extrinsic", "state", "consensus_digest"}

(* crate::hash on a c2 Header: a deterministic digest of every field.      *)
hash_Header(h) ==
    (17 * h.parent + 19 * h.height + 23 * h.extrinsic
       + 29 * h.state + 31 * h.consensus_digest + 1) % (ChainU64Max + 1)

(* a + b on u64: whether it overflows, and the wrapped sum.                *)
Overflows(a, b) == a + b > ChainU64Max
Wrapping(a, b) == (a + b) % (ChainU64Max + 1)

Returned(v) == [kind |-> "returned", value |-> v]
Overflow == [kind |-> "panic"]

(* Header::genesis                                                         *)
genesis ==
    [parent |-> 0, height |-> 0, extrinsic |-> 0, state |-> 0,
     consensus_digest |-> 0]

(* Header::child: the header it builds when no addition panics.            *)
child_header(self, extrinsic) ==
    [parent |-> hash_Header(self),
     height |-> Wrapping(self.height, 1),
     extrinsic |-> extrinsic,
     state |-> Wrapping(self.state, extrinsic),
     consensus_digest |-> 0]

(* Header::child                                                           *)
child(self, extrinsic, overflow_checks) ==
    IF overflow_checks
       /\ (Overflows(self.height, 1) \/ Overflows(self.state, extrinsic))
    THEN Overflow
    ELSE Returned(child_header(self, extrinsic))

(* Header::verify_sub_chain: the loop from the i-th header of the chain on *)
RECURSIVE verify_sub_chain_from(_, _, _, _)
verify_sub_chain_from(prev_header, headers, i, overflow_checks) ==
    IF i > Len(headers) THEN Ok(TRUE)
    ELSE LET header == headers[i]
         IN  IF header.parent # hash_Header(prev_header) THEN Ok(FALSE)
             ELSE IF overflow_checks /\ Overflows(prev_header.height, 1)
             THEN Panic
             ELSE IF header.height # Wrapping(prev_header.height, 1)
             THEN Ok(FALSE)
             ELSE IF overflow_checks
                     /\ Overflows(prev_header.state, header.extrinsic)
             THEN Panic
             ELSE IF header.state
                        # Wrapping(prev_header.state, header.extrinsic)
             THEN Ok(FALSE)
             ELSE IF hash_Header(header) >= THRESHOLD THEN Ok(FALSE)
             ELSE IF header.consensus_digest # prev_header.consensus_digest
             THEN Ok(FALSE)
             ELSE verify_sub_chain_from(header, headers, i + 1,
                                        overflow_checks)

(* Header::verify_sub_chain                                                *)
verify_sub_chain(self, headers, overflow_checks) ==
    verify_sub_chain_from(self, headers, 1, overflow_checks)

(* The loop shared by verify_sub_chain_even and verify_sub_chain_odd:      *)
(* `counted` is the remainder state % 2 that increments the counter        *)
(* (odd_state counts remainder 1, even_state remainder 0).                 *)
RECURSIVE verify_sub_chain_parity_from(_, _, _, _, _, _)
verify_sub_chain_parity_from(prev_header, headers, i, count, counted, checks) ==
    IF i > Len(headers)
    THEN IF count >= FORK_HEIGHT THEN Ok(FALSE) ELSE Ok(TRUE)
    ELSE LET header == headers[i]
         IN  IF header.parent # hash_Header(prev_header) THEN Ok(FALSE)
             ELSE IF checks /\ Overflows(prev_header.height, 1)
             THEN Panic
             ELSE IF header.height # Wrapping(prev_header.height, 1)
             THEN Ok(FALSE)
             ELSE IF checks
                     /\ Overflows(prev_header.state, header.extrinsic)
             THEN Panic
             ELSE IF header.state
                        # Wrapping(prev_header.state, header.extrinsic)
             THEN Ok(FALSE)
             ELSE IF hash_Header(header) >= THRESHOLD THEN Ok(FALSE)
             ELSE IF header.consensus_digest # prev_header.consensus_digest
             THEN Ok(FALSE)
             ELSE verify_sub_chain_parity_from(
                      header, headers, i + 1,
                      IF header.state % 2 = counted THEN count + 1 ELSE count,
                      counted, checks)

(* Header::verify_sub_chain_even                                           *)
verify_sub_chain_even(self, headers, overflow_checks) ==
    verify_sub_chain_parity_from(self, headers, 1, 0, 1, overflow_checks)

(* Header::verify_sub_chain_odd                                            *)
verify_sub_chain_odd(self, headers, overflow_checks) ==
    verify_sub_chain_parity_from(self, headers, 1, 0, 0, overflow_checks)

(* The extrinsic of the odd suffix, by odd_header.state % 2: 1 on an even  *)
(* state, 2 otherwise.                                                     *)
default_extrinsic == [remainder \in {0, 1} |-> IF remainder = 0 THEN 1 ELSE 2]

(* The result of the build from its seven child calls, given the           *)
(* extrinsic chosen for the odd suffix.                                    *)
BuildForkedChain(odd_extrinsic, overflow_checks) ==
    LET OddExtrinsic(odd_header) == odd_extrinsic[odd_header.state % 2] IN
    LET g == genesis
        last_header == child_header(g, 0)
        e1 == child_header(last_header, 2)
        e2 == child_header(e1, 2)
        e3 == child_header(e2, 2)
        o1 == child_header(last_header, OddExtrinsic(last_header))
        o2 == child_header(o1, OddExtrinsic(o1))
        o3 == child_header(o2, OddExtrinsic(o2))
        calls == {<<g, 0>>, <<last_header, 2>>, <<e1, 2>>, <<e2, 2>>,
                  <<last_header, OddExtrinsic(last_header)>>,
                  <<o1, OddExtrinsic(o1)>>, <<o2, OddExtrinsic(o2)>>}
    IN  IF \E c \in calls : child(c[1], c[2], overflow_checks) = Overflow
        THEN Overflow
        ELSE Returned([common_chain |-> <<g, last_header>>,
                       even_chain |-> <<e1, e2, e3>>,
                       odd_chain |-> <<o1, o2, o3>>])

build_contentious_forked_chain_EvenTwice(overflow_checks) ==
    BuildForkedChain([remainder \in {0, 1} |-> 2], overflow_checks)

(* build_contentious_forked_chain                                          *)
build_contentious_forked_chain(overflow_checks) ==
    BuildForkedChain(default_extrinsic, overflow_checks)

(* The program: a build mode, no header built yet.                         *)
ChainPrograms == {[kind |-> "Chain", overflow_checks |-> b] : b \in BOOLEAN}

(* The header the next child is built on.                                  *)
LastHeader == IF chain = <<>> THEN genesis ELSE chain[Len(chain)]

(* The predecessor of the i-th header of the chain.                        *)
Predecessor(i) == IF i = 1 THEN genesis ELSE chain[i - 1]

(* No header of the chain was overwritten after child() built it.          *)
Untampered ==
    \A i \in 1..Len(chain) :
       chain[i] = child_header(Predecessor(i), chain[i].extrinsic)

(* let b = last.child(extrinsic); the chain grows unless child panics.     *)
ChainChild ==
    /\ engine.kind = "Chain"
    /\ Fresh
    /\ Len(chain) < MaxChain
    /\ \E extrinsic \in Extrinsics :
          LET c == child(LastHeader, extrinsic, engine.overflow_checks)
          IN  IF c = Overflow
              THEN /\ call' = [op |-> "child", self |-> LastHeader,
                               extrinsic |-> extrinsic, outcome |-> c]
                   /\ UNCHANGED chain
              ELSE /\ chain' = Append(chain, c.value)
                   /\ UNCHANGED call
    /\ UNCHANGED <<engine, pc, ret_header, walk>>

(* b.<field> = v on the header built last; at most one header of a chain   *)
(* is overwritten.                                                         *)
ChainTamper ==
    /\ engine.kind = "Chain"
    /\ Fresh
    /\ chain # <<>>
    /\ Untampered
    /\ \E f \in HeaderFields, v \in TamperValues :
          chain' = [chain EXCEPT ![Len(chain)] = [@ EXCEPT ![f] = v]]
    /\ UNCHANGED <<engine, pc, ret_header, call, walk>>

(* chain[i].extrinsic = v, with v another value, on a chain that           *)
(* g.verify_sub_chain accepts.                                             *)
ChangeExtrinsic ==
    /\ engine.kind = "Chain"
    /\ Fresh
    /\ verify_sub_chain(genesis, chain, engine.overflow_checks) = Ok(TRUE)
    /\ \E i \in 1..Len(chain), v \in Extrinsics \cup TamperValues :
          /\ v # chain[i].extrinsic
          /\ chain' = [chain EXCEPT ![i].extrinsic = v]
          /\ call' = [op |-> "change_extrinsic", index |-> i]
    /\ UNCHANGED <<engine, pc, ret_header, walk>>

(* g.verify_sub_chain(&chain) on the chain with the changed extrinsic.     *)
VerifyChanged ==
    /\ engine.kind = "Chain"
    /\ pc = "idle"
    /\ call.op = "change_extrinsic"
    /\ call' = [op |-> "verify_changed", index |-> call.index,
                outcome |-> verify_sub_chain(genesis, chain,
                                             engine.overflow_checks)]
    /\ UNCHANGED <<engine, pc, ret_header, walk, chain>>

(* g.verify_sub_chain(&chain)                                              *)
VerifySubChain ==
    /\ engine.kind = "Chain"
    /\ Fresh
    /\ call' = [op |-> "verify_sub_chain",
                outcome |-> verify_sub_chain(genesis, chain,
                                             engine.overflow_checks)]
    /\ UNCHANGED <<engine, pc, ret_header, walk, chain>>

(* g.verify_sub_chain_even(&chain)                                         *)
VerifySubChainEven ==
    /\ engine.kind = "Chain"
    /\ Fresh
    /\ call' = [op |-> "verify_sub_chain_even",
                outcome |-> verify_sub_chain_even(genesis, chain,
                                                  engine.overflow_checks)]
    /\ UNCHANGED <<engine, pc, ret_header, walk, chain>>

(* g.verify_sub_chain_odd(&chain)                                          *)
VerifySubChainOdd ==
    /\ engine.kind = "Chain"
    /\ Fresh
    /\ call' = [op |-> "verify_sub_chain_odd",
                outcome |-> verify_sub_chain_odd(genesis, chain,
                                                 engine.overflow_checks)]
    /\ UNCHANGED <<engine, pc, ret_header, walk, chain>>

(* build_contentious_forked_chain()                                        *)
BuildContentiousForkedChain ==
    /\ engine.kind = "Chain"
    /\ Fresh
    /\ chain = <<>>
    /\ call' = [op |-> "build_contentious_forked_chain",
                outcome |-> build_contentious_forked_chain(
                                engine.overflow_checks)]
    /\ UNCHANGED <<engine, pc, ret_header, walk, chain>>

----------------------------------------------------------------------------
(* Specifications: the engine is constructed, then called.                 *)

Idle ==
    /\ pc = "idle"
    /\ ret_header = NoHeader
    /\ call = [op |-> "none"]
    /\ walk = [status |-> "none"]
    /\ chain = <<>>

InitPoW == engine \in PoWEngines /\ Idle

NextPoW ==
    \/ PoWValidate
    \/ PoWSealBegin
    \/ PoWSealIter
    \/ PoWSealReturn

SpecPoW == InitPoW /\ [][NextPoW]_vars

InitPoa == engine \in PoaEngines /\ Idle

NextPoa ==
    \/ SimplePoaValidate
    \/ SimplePoaSeal
    \/ ByHeightValidate
    \/ ByHeightSeal
    \/ BySlotValidate
    \/ BySlotSeal
    \/ WalkBegin
    \/ WalkStep

SpecPoa == InitPoa /\ [][NextPoa]_vars

InitEvenOnly == engine \in EvenOnlyEngines /\ Idle

NextEvenOnly ==
    \/ EvenOnlyValidate
    \/ EvenOnlySeal
    \/ EvenOnlyWalkBegin
    \/ EvenOnlyWalkStep

SpecEvenOnly == InitEvenOnly /\ [][NextEvenOnly]_vars

InitForked == engine \in ForkedEngines /\ Idle

NextForked == ForkedValidate \/ ForkedSeal

SpecForked == InitForked /\ [][NextForked]_vars

InitEvenAfter == engine \in EvenAfterEngines /\ Idle

NextEvenAfter == EvenAfterValidate \/ EvenAfterSeal

SpecEvenAfter == InitEvenAfter /\ [][NextEvenAfter]_vars

InitPowToPoa == engine = NoEngine /\ Idle

NextPowToPoa == PowToPoa

SpecPowToPoa == InitPowToPoa /\ [][NextPowToPoa]_vars

InitAlternating == engine \in AlternatingEngines /\ Idle

NextAlternating == AlternatingToggle \/ AlternatingValidate \/ AlternatingSeal

SpecAlternating == InitAlternating /\ [][NextAlternating]_vars

InitSameDigestFork ==
    engine \in ChangeAuthoritiesEngines \cup ChangeDifficultyEngines /\ Idle

NextSameDigestFork ==
    \/ ChangeAuthoritiesValidate
    \/ ChangeAuthoritiesSeal
    \/ ChangeDifficultyValidate
    \/ ChangeDifficultySeal

SpecSameDigestFork == InitSameDigestFork /\ [][NextSameDigestFork]_vars

InitForkedRepeated == engine \in RepeatedlyCalledEngines /\ Idle

NextForkedRepeated ==
    \/ ForkedEarlierCall
    \/ ForkedLaterValidate
    \/ ForkedLaterSeal

SpecForkedRepeated == InitForkedRepeated /\ [][NextForkedRepeated]_vars

(* Every engine that seals, and its seal alone.                            *)
InitSeal ==
    /\ engine \in BaseEngines \cup EvenOnlyEngines \cup ForkedEngines
                  \cup EvenAfterEngines \cup AlternatingEngines
                  \cup ChangeDifficultyEngines
    /\ Idle

NextSeal ==
    \/ PoWSealBegin
    \/ PoWSealIter
    \/ PoWSealReturn
    \/ SimplePoaSeal
    \/ ByHeightSeal
    \/ BySlotSeal
    \/ EvenOnlySeal
    \/ ForkedSeal
    \/ EvenAfterSeal
    \/ AlternatingToggle
    \/ AlternatingSeal
    \/ ChangeDifficultySeal

SpecSeal == InitSeal /\ [][NextSeal]_vars

InitChain == engine \in ChainPrograms /\ Idle

NextChain ==
    \/ ChainChild
    \/ ChainTamper
    \/ VerifySubChain
    \/ VerifySubChainEven
    \/ VerifySubChainOdd
    \/ BuildContentiousForkedChain

SpecChain == InitChain /\ [][NextChain]_vars

NextTamper == ChainChild \/ ChangeExtrinsic \/ VerifyChanged

SpecTamper == InitChain /\ [][NextTamper]_vars

Init ==
    \/ InitPoW \/ InitPoa \/ InitEvenOnly \/ InitForked \/ InitEvenAfter
    \/ InitPowToPoa \/ InitAlternating \/ InitChain \/ InitSameDigestFork

Next ==
    \/ NextPoW \/ NextPoa \/ NextEvenOnly \/ NextForked \/ NextEvenAfter
    \/ NextPowToPoa \/ NextAlternating \/ NextChain \/ NextSameDigestFork
    \/ NextTamper \/ NextForkedRepeated

Spec == Init /\ [][Next]_vars

----------------------------------------------------------------------------
(* Properties                                                              *)

(* The elements of a vector.                                               *)
Range(v) == {v[i] : i \in 1..Len(v)}

(* The authority assigned to turn k by a non-empty list: A[k mod n].       *)
Assigned(authorities, k) == authorities[(k % Len(authorities)) + 1]

IsPoa == engine.kind \in PoaKinds

(* C1: Proof-of-Work seal/validate self-consistency: whenever seal(pd, p)  *)
(* returns Some(h), validate(pd, h) returns true.                          *)
C1_PoWSealValidates ==
    (engine.kind = "PoW" /\ call.op = "validate" /\ call.after_seal)
        => call.outcome = Ok(TRUE)

(* C2: PoW validate(pd, h) returns true if and only if hash(h) <=          *)
(* threshold, the hash covering every field of h, whatever pd is.          *)
C2_PoWValidateIffHashAtOrBelowThreshold ==
    (engine.kind = "PoW" /\ call.op = "validate")
        => call.outcome = Ok(hash(call.header) <= engine.threshold)

(* C3: the header PoW seal returns carries the smallest nonce, counted     *)
(* from 1, whose hash is at or below the threshold, so its hash is at or   *)
(* below the threshold.                                                    *)
C3_PoWSealReturnsFirstNonceAtOrBelowThreshold ==
    (engine.kind = "PoW" /\ call.op = "seal" /\ call.outcome.kind = "Some")
        => LET h == call.outcome.header
           IN  /\ Unsealed(h) = call.partial
               /\ h.consensus_digest >= 1
               /\ hash(h) <= engine.threshold
               /\ \A n \in 1..(h.consensus_digest - 1) :
                      hash(Sealed(call.partial, n)) > engine.threshold

(* C4: Proof-of-Authority seal/validate self-consistency: for each of the  *)
(* three PoA engines with a non-empty authority list, whenever seal(pd, p) *)
(* returns Some(h), validate(pd, h) returns true.                          *)
C4_PoaSealValidates ==
    (/\ IsPoa
     /\ Len(engine.authorities) > 0
     /\ call.op = "validate"
     /\ call.after_seal)
        => call.outcome = Ok(TRUE)

(* C5: round-robin-by-slot validate(pd, h) with N authorities returns true *)
(* if and only if the signature is authorities[slot mod N] and the slot is *)
(* strictly greater than pd.slot, for every slot, slots >= N included.     *)
C5_BySlotValidateRule ==
    (/\ engine.kind = "PoaRoundRobinBySlot"
     /\ Len(engine.authorities) > 0
     /\ call.op = "validate")
        => LET d == call.header.consensus_digest
           IN  call.outcome =
                   Ok(/\ d.signature = Assigned(engine.authorities, d.slot)
                      /\ d.slot > call.pd.slot)

(* Strictly increasing sequence of numbers.                                *)
StrictlyIncreasing(q) == \A i \in 1..(Len(q) - 1) : q[i] < q[i + 1]

(* C6: in a chain walked with round-robin-by-slot, the accepted slots are  *)
(* strictly increasing; a header signed by the authority assigned to its   *)
(* slot is accepted when its slot is above its parent's, skipped slots     *)
(* included, and rejected when it repeats or goes below its parent's.      *)
C6_WalkAcceptsExactlyIncreasingSlots ==
    (/\ engine.kind = "PoaRoundRobinBySlot"
     /\ Len(engine.authorities) > 0
     /\ walk.status # "none")
        => /\ StrictlyIncreasing(walk.slots)
           /\ (/\ walk.outcome.kind # "none"
               /\ walk.examined.signature
                     = Assigned(engine.authorities, walk.examined.slot))
                 => walk.outcome = Ok(walk.examined.slot > walk.against.slot)

(* C7: round-robin-by-slot seal(pd, p) with N authorities returns p sealed *)
(* with slot pd.slot + 1 and the signature of the authority assigned to    *)
(* that slot, authorities[(pd.slot + 1) mod N].                            *)
C7_BySlotSealRule ==
    (/\ engine.kind = "PoaRoundRobinBySlot"
     /\ Len(engine.authorities) > 0
     /\ call.op = "seal")
        => call.outcome =
              Some(Sealed(call.partial,
                          [slot |-> call.pd.slot + 1,
                           signature |-> Assigned(engine.authorities,
                                                  call.pd.slot + 1)]))

(* C8: round-robin-by-height validate with n >= 1 authorities accepts a    *)
(* header at height k if and only if its digest is A[k mod n], whatever    *)
(* the parent digest is.                                                   *)
C8_ByHeightValidateRule ==
    (/\ engine.kind = "PoaRoundRobinByHeight"
     /\ Len(engine.authorities) > 0
     /\ call.op = "validate")
        => /\ call.outcome =
                 Ok(call.header.consensus_digest
                       = Assigned(engine.authorities, call.header.height))
           /\ \A pd \in ConsensusAuthority :
                 PoaRoundRobinByHeight_validate(engine.authorities, pd, call.header)
                    = call.outcome

(* C8 happens: past the first cycle, a signer that is an authority but not *)
(* the one assigned to the height is rejected.                             *)
C8_Witness ==
    /\ engine.kind = "PoaRoundRobinByHeight"
    /\ Len(engine.authorities) > 1
    /\ call.op = "validate"
    /\ call.header.height >= Len(engine.authorities)
    /\ call.header.consensus_digest \in Range(engine.authorities)
    /\ call.header.consensus_digest
          # Assigned(engine.authorities, call.header.height)
    /\ call.outcome = Ok(FALSE)

(* C9: any-authority validate returns true if and only if the digest is a  *)
(* member of the authority set, whatever the height and the parent digest. *)
C9_SimplePoaValidateRule ==
    (engine.kind = "SimplePoa" /\ call.op = "validate")
        => /\ call.outcome =
                 Ok(call.header.consensus_digest \in Range(engine.authorities))
           /\ \A pd \in ConsensusAuthority, k \in 0..MaxHeight :
                 SimplePoa_validate(engine.authorities, pd,
                                    [call.header EXCEPT !.height = k])
                    = call.outcome

(* C9 happens: a digest equal to an authority other than the first is      *)
(* accepted.                                                               *)
C9_Witness ==
    /\ engine.kind = "SimplePoa"
    /\ call.op = "validate"
    /\ Len(engine.authorities) > 1
    /\ call.header.consensus_digest = engine.authorities[2]
    /\ call.header.consensus_digest # engine.authorities[1]
    /\ call.outcome = Ok(TRUE)

(* C10: the PoA engines are total: for every authority list, the empty one *)
(* included, validate returns a boolean and seal returns Some or None,     *)
(* never a panic; with an empty list seal returns None.                    *)
C10_PoaTotal ==
    (IsPoa /\ call.op \in {"validate", "seal"})
        => /\ call.outcome.kind # "panic"
           /\ (call.op = "seal" /\ Len(engine.authorities) = 0)
                 => call.outcome = None

(* PoW::seal as a whole agrees with its loop: what the loop returns is one *)
(* of the outcomes of PoW_seal.                                            *)
PoWSealLoopAgrees ==
    (engine.kind = "PoW" /\ call.op = "seal")
        => call.outcome \in PoW_seal(engine.threshold, call.pd, call.partial)

(* C11: EvenOnly validate is the inner engine's validate AND an even state *)
(* root; so a chain walk under EvenOnly accepts only even state roots and  *)
(* stops, not accepting, at the first header with an odd state root.       *)
C11_EvenOnlyValidateRule ==
    engine.kind = "EvenOnly"
        => /\ call.op = "validate"
                => LET inner == Inner_validate(engine.inner, call.pd, call.header)
                   IN  IF inner.kind = "panic" THEN call.outcome.kind = "panic"
                       ELSE call.outcome =
                               Ok(inner.value /\ call.header.state_root % 2 = 0)
           /\ walk.status # "none"
                => /\ \A i \in 1..Len(walk.roots) : walk.roots[i] % 2 = 0
                   /\ (walk.outcome.kind # "none" /\ walk.examined_root % 2 = 1)
                         => walk.status # "walking"
                   /\ (walk.outcome.kind # "none" /\ walk.examined_root % 2 = 0
                         /\ walk.inner = Ok(TRUE))
                         => walk.status = "walking"

(* C11 happens: after an accepted header, a header the inner engine        *)
(* accepts is rejected for its odd state root, which ends the walk.        *)
C11_Witness ==
    /\ engine.kind = "EvenOnly"
    /\ walk.status = "rejected"
    /\ Len(walk.roots) >= 1
    /\ walk.inner = Ok(TRUE)
    /\ walk.examined_root % 2 = 1

(* C12: EvenOnly seal returns None when the inner seal returns None or the *)
(* sealed header's state root is odd, and otherwise exactly the header the *)
(* inner seal produced.                                                    *)
C12_EvenOnlySealRule ==
    (engine.kind = "EvenOnly" /\ call.op = "seal")
        => \E sealed \in Inner_seal(engine.inner, call.pd, call.partial) :
              CASE sealed.kind = "None" -> call.outcome = None
                [] sealed.kind = "panic" -> call.outcome.kind = "panic"
                [] sealed.kind = "Some" ->
                      IF sealed.header.state_root % 2 = 1
                      THEN call.outcome = None
                      ELSE call.outcome = sealed

(* C12 happens: the inner engine seals a header with an odd state root and *)
(* EvenOnly returns None.                                                  *)
C12_Witness ==
    /\ engine.kind = "EvenOnly"
    /\ call.op = "seal"
    /\ call.partial.state_root % 2 = 1
    /\ \E sealed \in Inner_seal(engine.inner, call.pd, call.partial) :
          sealed.kind = "Some"
    /\ call.outcome = None

(* C13: Forked selects its arm exactly by height: validate gives Before's  *)
(* verdict for height < fork_height and After's for height >= fork_height, *)
(* and seal applies the same test to the partial header's height.          *)
C13_ForkedSelectsByHeight ==
    engine.kind = "Forked"
        => /\ call.op = "validate"
                => call.outcome =
                      Inner_validate(IF call.header.height < engine.fork_height
                                     THEN engine.before ELSE engine.after,
                                     call.pd, call.header)
           /\ call.op = "seal"
                => call.outcome \in
                      Inner_seal(IF call.partial.height < engine.fork_height
                                 THEN engine.before ELSE engine.after,
                                 call.pd, call.partial)

(* C13 happens: at the boundary height = fork_height the two arms disagree *)
(* on the header and the verdict is After's.                               *)
C13_Witness ==
    /\ engine.kind = "Forked"
    /\ call.op = "validate"
    /\ call.header.height = engine.fork_height
    /\ engine.fork_height > 0
    /\ Inner_validate(engine.before, call.pd, call.header)
          # Inner_validate(engine.after, call.pd, call.header)
    /\ call.outcome = Inner_validate(engine.after, call.pd, call.header)

(* C14: the PoW-to-PoA fork engine of pow_to_poa never aborts, and its     *)
(* validate returns false for a header that carries a Poa digest at a      *)
(* height < fork_height or a Pow digest at a height >= fork_height.        *)
C14_CrossDigestMismatchRejected ==
    /\ call.op = "pow_to_poa" => call.outcome.kind # "panic"
    /\ (engine.kind = "PowToPoa" /\ call.op = "validate")
          => /\ call.outcome.kind # "panic"
             /\ (\/ /\ call.header.consensus_digest.tag = "Poa"
                    /\ call.header.height < engine.fork_height
                 \/ /\ call.header.consensus_digest.tag = "Pow"
                    /\ call.header.height >= engine.fork_height)
                   => call.outcome = Ok(FALSE)

(* C15: after k toggles from the initial engine E, AlternatingPowPoa       *)
(* validates and seals as E, with E's own parameters, when k is even, and  *)
(* as the other engine (Proof of Authority, E being Proof of Work) when k  *)
(* is odd.                                                                 *)
C15_AlternatingTogglesBetweenTwoEngines ==
    engine.kind = "AlternatingPowPoa"
        => LET selected == IF engine.toggles % 2 = 0
                           THEN engine.initial ELSE PoaConsensus
           IN  /\ call.op = "validate"
                    => call.outcome =
                          Current_validate(selected, call.pd, call.header)
               /\ call.op = "seal"
                    => call.outcome \in
                          Current_seal(selected, call.pd, call.partial)

(* An engine is self-consistent: every header it seals it validates       *)
(* against the same parent digest.                                         *)
SelfConsistent(e) ==
    \A pd \in Digests(e.kind), p \in PartialHeaders :
       \A sealed \in Inner_seal(e, pd, p) :
          sealed.kind = "Some" => Inner_validate(e, pd, sealed.header) = Ok(TRUE)

(* C16: seal/validate self-consistency of the composite engines: for       *)
(* EvenOnly, Forked, AlternatingPowPoa (no toggle between the two calls)   *)
(* and the engine of even_after_given_height, whenever the inner engines   *)
(* are self-consistent, a header seal returns is validated against the     *)
(* same parent digest.                                                     *)
C16_CompositeSealValidates ==
    (/\ engine.kind \in {"EvenOnly", "Forked", "AlternatingPowPoa",
                         "EvenAfterGivenHeight"}
     /\ call.op = "validate"
     /\ call.after_seal
     /\ CASE engine.kind \in {"EvenOnly", "EvenAfterGivenHeight"} ->
                SelfConsistent(engine.inner)
          [] engine.kind = "Forked" ->
                SelfConsistent(engine.before) /\ SelfConsistent(engine.after)
          [] engine.kind = "AlternatingPowPoa" ->
                \A pd \in U64, p \in PartialHeaders :
                   \A sealed \in Current_seal(engine.current_engine, pd, p) :
                      sealed.kind = "Some"
                         => Current_validate(engine.current_engine, pd,
                                             sealed.header) = Ok(TRUE))
        => call.outcome = Ok(TRUE)

(* The four rules a header must satisfy after its predecessor: parent      *)
(* link, height, state, and a hash below THRESHOLD (u64 arithmetic).       *)
LinkRules(prev_header, header) ==
    /\ header.parent = hash_Header(prev_header)
    /\ header.height = Wrapping(prev_header.height, 1)
    /\ header.state = Wrapping(prev_header.state, header.extrinsic)
    /\ hash_Header(header) < THRESHOLD

(* C17: verify_sub_chain returns true if and only if every header of the   *)
(* chain, walked in order from self, has parent = hash(predecessor),       *)
(* height = predecessor.height + 1, state = predecessor.state + extrinsic  *)
(* and a hash below THRESHOLD; nothing else makes it reject, and the       *)
(* empty chain is accepted.                                                *)
C17_VerifySubChainExactlyTheFourRules ==
    (engine.kind = "Chain" /\ call.op = "verify_sub_chain")
        => call.outcome =
              Ok(\A i \in 1..Len(chain) : LinkRules(Predecessor(i), chain[i]))

(* C18: child always yields a valid child: it returns a header with        *)
(* parent = hash(h), height = h.height + 1, the extrinsic given,           *)
(* state = h.state + e and a hash below THRESHOLD, so every chain built    *)
(* from genesis by child calls alone is accepted by verify_sub_chain.      *)
C18_ChildIsValid ==
    engine.kind = "Chain"
        => /\ call.op = "child" => call.outcome.kind = "returned"
           /\ Untampered
                 => /\ \A i \in 1..Len(chain) :
                          LinkRules(Predecessor(i), chain[i])
                    /\ call.op = "verify_sub_chain"
                          => call.outcome = Ok(TRUE)

(* Every header of the chain above FORK_HEIGHT has a state of the given    *)
(* remainder modulo 2.                                                     *)
ParityAfterFork(remainder) ==
    \A i \in 1..Len(chain) :
       chain[i].height > FORK_HEIGHT => chain[i].state % 2 = remainder

(* C19: for a chain that passes verify_sub_chain, verify_sub_chain_even    *)
(* accepts it exactly when every header above FORK_HEIGHT has an even      *)
(* state, and verify_sub_chain_odd exactly when every header above         *)
(* FORK_HEIGHT has an odd state; states at heights up to FORK_HEIGHT do    *)
(* not matter.                                                             *)
C19_ParityRuleAppliesAfterForkHeight ==
    (/\ engine.kind = "Chain"
     /\ call.op \in {"verify_sub_chain_even", "verify_sub_chain_odd"}
     /\ verify_sub_chain(genesis, chain, engine.overflow_checks) = Ok(TRUE))
        => call.outcome =
              Ok(ParityAfterFork(IF call.op = "verify_sub_chain_even"
                                 THEN 0 ELSE 1))

(* C20: build_contentious_forked_chain returns a prefix that starts at     *)
(* genesis, an even suffix and an odd suffix; prefix+even and prefix+odd   *)
(* both pass verify_sub_chain, prefix+even passes verify_sub_chain_even    *)
(* and fails verify_sub_chain_odd, prefix+odd passes verify_sub_chain_odd  *)
(* and fails verify_sub_chain_even.                                        *)
C20_ForkedChainSplitsTheVerifiers ==
    (engine.kind = "Chain" /\ call.op = "build_contentious_forked_chain")
        => /\ call.outcome.kind = "returned"
           /\ LET r == call.outcome.value
                  g == r.common_chain[1]
                  full_even_chain == Tail(r.common_chain) \o r.even_chain
                  full_odd_chain == Tail(r.common_chain) \o r.odd_chain
                  b == engine.overflow_checks
              IN  /\ g = genesis
                  /\ verify_sub_chain(g, full_even_chain, b) = Ok(TRUE)
                  /\ verify_sub_chain(g, full_odd_chain, b) = Ok(TRUE)
                  /\ verify_sub_chain_even(g, full_even_chain, b) = Ok(TRUE)
                  /\ verify_sub_chain_even(g, full_odd_chain, b) = Ok(FALSE)
                  /\ verify_sub_chain_odd(g, full_even_chain, b) = Ok(FALSE)
                  /\ verify_sub_chain_odd(g, full_odd_chain, b) = Ok(TRUE)

(* The build has returned its three vectors, in a build with overflow      *)
(* checks.                                                                 *)
C20_Witness ==
    /\ engine.kind = "Chain"
    /\ engine.overflow_checks
    /\ call.op = "build_contentious_forked_chain"
    /\ call.outcome.kind = "returned"
    /\ Len(call.outcome.value.common_chain) = 2
    /\ Len(call.outcome.value.even_chain) = 3
    /\ Len(call.outcome.value.odd_chain) = 3

(* C21: the engine of change_authorities validates a header iff its       *)
(* digest satisfies the PoA rule for the initial authorities when          *)
(* height < fork_height and for the final authorities when                 *)
(* height >= fork_height, and seals accordingly; the engine of             *)
(* change_difficulty applies the PoW threshold initial_difficulty below    *)
(* fork_height and final_difficulty from it on.                            *)
C21_SameDigestForkSwitchesParameters ==
    /\ (engine.kind = "PoAChangeAuthorities" /\ call.op \in {"validate", "seal"})
          => LET authorities ==
                    IF (IF call.op = "validate" THEN call.header.height
                        ELSE call.partial.height) < engine.fork_height
                    THEN engine.initial_authorities
                    ELSE engine.final_authorities
             IN  IF call.op = "validate"
                 THEN call.outcome =
                         SimplePoa_validate(authorities, call.pd, call.header)
                 ELSE call.outcome =
                         SimplePoa_seal(authorities, call.pd, call.partial)
    /\ (engine.kind = "ChangingDifficultyPoW" /\ call.op = "validate")
          => call.outcome =
                PoW_validate(IF call.header.height < engine.fork_height
                             THEN engine.initial_difficulty
                             ELSE engine.final_difficulty,
                             call.pd, call.header)

(* C22: the engine of even_after_given_height over an original engine O   *)
(* validates a header with height < fork_height exactly as O does, and a   *)
(* header with height >= fork_height iff O validates it and its state_root *)
(* is even; it aborts only where O does.                                   *)
C22_EvenAfterForkHeightOnly ==
    (engine.kind = "EvenAfterGivenHeight" /\ call.op = "validate")
        => LET original ==
                   Inner_validate(engine.inner, call.pd, call.header)
           IN  /\ call.header.height < engine.fork_height
                     => call.outcome = original
               /\ call.header.height >= engine.fork_height
                     => /\ call.outcome = Ok(TRUE)
                           <=> /\ original = Ok(TRUE)
                               /\ call.header.state_root % 2 = 0
                        /\ call.outcome.kind = "panic"
                              => original.kind = "panic"

(* C22 happens: a header at exactly fork_height that O validates is        *)
(* rejected for its odd state root.                                        *)
C22_Witness ==
    /\ engine.kind = "EvenAfterGivenHeight"
    /\ call.op = "validate"
    /\ call.header.height = engine.fork_height
    /\ call.header.state_root % 2 = 1
    /\ Inner_validate(engine.inner, call.pd, call.header) = Ok(TRUE)
    /\ call.outcome = Ok(FALSE)

(* C23: for any chain verify_sub_chain accepts, changing the extrinsic of  *)
(* any one header, all other headers left as they are, makes               *)
(* verify_sub_chain reject the chain.                                      *)
C23_ChangedExtrinsicIsRejected ==
    (engine.kind = "Chain" /\ call.op = "verify_changed")
        => call.outcome = Ok(FALSE)

(* C24: seal changes only the consensus digest: whenever seal(pd, p)       *)
(* returns Some(h), the parent, height, extrinsics_root and state_root of  *)
(* h are those of the partial header p (PoW, the three PoA engines,        *)
(* EvenOnly, AlternatingPowPoa, Forked, and the engines of                 *)
(* change_difficulty and even_after_given_height).                         *)
C24_SealKeepsThePartialHeader ==
    (call.op = "seal" /\ call.outcome.kind = "Some")
        => /\ call.outcome.header.parent = call.partial.parent
           /\ call.outcome.header.height = call.partial.height
           /\ call.outcome.header.extrinsics_root = call.partial.extrinsics_root
           /\ call.outcome.header.state_root = call.partial.state_root

(* C24 happens: a composite engine has sealed a partial header whose two   *)
(* roots differ.                                                           *)
C24_Witness ==
    /\ engine.kind = "ChangingDifficultyPoW"
    /\ call.op = "seal"
    /\ call.outcome.kind = "Some"
    /\ call.partial.height > engine.fork_height
    /\ call.partial.extrinsics_root # call.partial.state_root

(* C25: Forked keeps no mode: the arm of a validate or seal call is        *)
(* chosen by that call's header height and fork_height alone, so the       *)
(* result of a call is the same whatever calls came before it, in any      *)
(* order, and the calls leave the engine as it was constructed.            *)
C25_ForkedVerdictIgnoresEarlierCalls ==
    (engine.kind = "Forked" /\ walk.status = "history")
        => /\ engine = walk.engine0
           /\ call.op = "validate"
                 => call.outcome =
                       Inner_validate(
                          IF call.header.height < walk.engine0.fork_height
                          THEN walk.engine0.before ELSE walk.engine0.after,
                          call.pd, call.header)
           /\ call.op = "seal"
                 => call.outcome \in
                       Inner_seal(
                          IF call.partial.height < walk.engine0.fork_height
                          THEN walk.engine0.before ELSE walk.engine0.after,
                          call.pd, call.partial)

(* C25 happens: after a call on a header at or above fork_height, a header *)
(* below fork_height on which the arms disagree gets Before's verdict.     *)
C25_Witness ==
    /\ engine.kind = "Forked"
    /\ walk.status = "history"
    /\ \E height \in walk.heights : height >= walk.engine0.fork_height
    /\ call.op = "validate"
    /\ call.header.height < walk.engine0.fork_height
    /\ Inner_validate(walk.engine0.before, call.pd, call.header)
          # Inner_validate(walk.engine0.after, call.pd, call.header)
    /\ call.outcome =
          Inner_validate(walk.engine0.before, call.pd, call.header)

(* C26: AlternatingPowPoa's selector is single-writer: a toggle overlaps   *)
(* no other toggle and no validate or seal call, so every validate and     *)
(* seal is answered entirely by the one engine selected at that moment,    *)
(* and two toggles net to no change of the selected engine.                *)
C26_SingleWriterSelector ==
    engine.kind = "AlternatingPowPoa"
        => /\ call.op = "validate"
                 => call.outcome =
                       Current_validate(engine.current_engine,
                                        call.pd, call.header)
           /\ call.op = "seal"
                 => call.outcome \in
                       Current_seal(engine.current_engine,
                                    call.pd, call.partial)
           /\ engine.toggles = 2 => engine.current_engine = engine.initial

====
